---- MODULE Spec2Model ----
(***************************************************************************)
(* State-machine model of the RepoRouge command-line client                *)
(* (src/reporouge_cli.py).  One action per sub-command; every action runs  *)
(* the click group callback `cli` first, as click does, and then the       *)
(* command handler up to its return or the exception that ends it.         *)
(*                                                                         *)
(* The machine the client runs on is the record called a "world":          *)
(*   gcfg           the global config file ~/.reporouge/config.json        *)
(*   config_dir     whether ~/.reporouge exists                            *)
(*   cache_dir      whether ~/.reporouge/cache exists                      *)
(*   target_exists  whether the repository directory exists (the target    *)
(*                  of clone, the current directory of the other commands) *)
(*   fs             its files: path (sequence of components) -> content    *)
(*   log            the network calls and filesystem mutations of the      *)
(*                  command that ran last, in the order it made them       *)
(* and `installed` records the branch whose snapshot was extracted last    *)
(* into the directory.                                                     *)
(***************************************************************************)
EXTENDS Integers, Sequences, FiniteSets, TLC

VARIABLES gcfg, config_dir, cache_dir, target_exists, fs, clock, last, log,
          installed

vars ==
  <<gcfg, config_dir, cache_dir, target_exists, fs, clock, last, log, installed>>

\* Number of commands run in one behaviour; also the range of datetime.now().
MaxClock == 4

---------------------------------------------------------------------------
\* Values

Null == "null"

DefaultServer == "https://repo-rouge.onrender.com"

Branches == {"main", "dev"}

Servers == {DefaultServer}

RepoUrls == {"alice/proj", "proj"}

Messages == {"fix"}

HIDDEN == ".reporouge"

DescriptorPath == <<HIDDEN, "config.json">>

\* File contents: UTF-8 text, bytes that are not UTF-8, a file without read
\* permission, and the JSON object of a local repository descriptor.
Text(t) == [kind |-> "text", text |-> t]

Bin == [kind |-> "bin"]

NoRead == [kind |-> "noread"]

Desc(owner, repo_name, branch, at) ==
  [kind |-> "desc", owner |-> owner, repo_name |-> repo_name,
   current_branch |-> branch, cloned_at |-> at]

EmptyFs == [p \in {} |-> Bin]

Write(f, p, c) == [q \in (DOMAIN f) \cup {p} |-> IF q = p THEN c ELSE f[q]]

Restrict(f, S) == [q \in S |-> f[q]]

---------------------------------------------------------------------------
\* Strings

Contains(needle, hay) ==
  \E i \in 1..(Len(hay) - Len(needle) + 1) :
     SubSeq(hay, i, i + Len(needle) - 1) = needle

StartsWith(s, prefix) ==
  Len(s) >= Len(prefix) /\ SubSeq(s, 1, Len(prefix)) = prefix

SlashAt(s) == {i \in 1..Len(s) : SubSeq(s, i, i) = "/"}

FirstSlash(s) == CHOOSE i \in SlashAt(s) : \A j \in SlashAt(s) : i <= j

RECURSIVE Split(_)
Split(s) ==
  IF SlashAt(s) = {} THEN <<s>>
  ELSE <<SubSeq(s, 1, FirstSlash(s) - 1)>>
         \o Split(SubSeq(s, FirstSlash(s) + 1, Len(s)))

RECURSIVE Join(_)
Join(parts) ==
  IF parts = <<>> THEN ""
  ELSE IF Len(parts) = 1 THEN parts[1]
  ELSE parts[1] \o "/" \o Join(Tail(parts))

RECURSIVE DropParts(_, _)
DropParts(parts, bad) ==
  IF parts = <<>> THEN <<>>
  ELSE IF Head(parts) \in bad THEN DropParts(Tail(parts), bad)
  ELSE <<Head(parts)>> \o DropParts(Tail(parts), bad)

---------------------------------------------------------------------------
\* The world a command runs in, and its primitive effects

World ==
  [gcfg |-> gcfg, config_dir |-> config_dir, cache_dir |-> cache_dir,
   target_exists |-> target_exists, fs |-> fs, log |-> <<>>]

Logged(w, event) == [w EXCEPT !.log = Append(w.log, event)]

\* One HTTP request of RepoRougeAPI: session.get / session.post.
request(w, endpoint) == Logged(w, endpoint)

NetEvents ==
  {"POST /auth/login", "POST /auth/cli-token", "GET info", "GET clone",
   "GET branches", "POST switch", "POST push"}

Result(w, outcome) ==
  [w |-> w, outcome |-> outcome, listed |-> {}, payload |-> {}, branch |-> Null]

---------------------------------------------------------------------------
\* Config Store (class RepoRougeConfig)

default_config == [server_url |-> DefaultServer, token |-> Null, username |-> Null]

initial_config ==
  [server_url |-> DefaultServer, token |-> Null, username |-> Null,
   setup_completed |-> TRUE]

Object(o) == [kind |-> "object", obj |-> o]

\* Content classes of the global config file.
GAbsent == [kind |-> "absent"]

GUnreadable == [kind |-> "unreadable"]

GNotUtf8 == [kind |-> "notutf8"]

GNotJson == [kind |-> "notjson"]

GNonObject == [kind |-> "nonobject"]

Get(o, key) == IF key \in DOMAIN o THEN o[key] ELSE Null

Truthy(v) == v # Null

ensure_config_dir(w) ==
  [w EXCEPT !.config_dir = TRUE, !.cache_dir = TRUE,
            !.log = w.log
                    \o (IF w.config_dir THEN <<>> ELSE <<"mkdir config_dir">>)
                    \o (IF w.cache_dir THEN <<>> ELSE <<"mkdir cache_dir">>)]

\* json.load of the global config file.  The handler catches JSONDecodeError
\* and IOError; the UnicodeDecodeError of a file that is not UTF-8 is neither.
load_config(g) ==
  CASE g.kind = "absent"     -> [raised |-> FALSE, value |-> Object(default_config)]
    [] g.kind = "unreadable" -> [raised |-> FALSE, value |-> Object(default_config)]
    [] g.kind = "notjson"    -> [raised |-> FALSE, value |-> Object(default_config)]
    [] g.kind = "notutf8"    -> [raised |-> TRUE, value |-> GNotUtf8]
    [] g.kind = "nonobject"  -> [raised |-> FALSE, value |-> GNonObject]
    [] g.kind = "object"     -> [raised |-> FALSE, value |-> g]

\* open(..., 'w') of a file that cannot be opened raises IOError, turned into
\* a ClickException; the file keeps its content.
save_config(w, config) ==
  IF w.gcfg.kind = "unreadable"
  THEN [w |-> w, raised |-> TRUE]
  ELSE [w |-> Logged([w EXCEPT !.gcfg = Object(config)], "write global config"),
        raised |-> FALSE]

None == [kind |-> "none"]

\* Reads .reporouge/config.json of the current directory.
get_local_repo_config(f) ==
  IF DescriptorPath \notin DOMAIN f THEN [raised |-> FALSE, value |-> None]
  ELSE CASE f[DescriptorPath].kind = "desc"   -> [raised |-> FALSE, value |-> f[DescriptorPath]]
         [] f[DescriptorPath].kind = "text"   -> [raised |-> FALSE, value |-> None]
         [] f[DescriptorPath].kind = "noread" -> [raised |-> FALSE, value |-> None]
         [] f[DescriptorPath].kind = "bin"    -> [raised |-> TRUE, value |-> None]

\* The click group callback: runs before every sub-command.
cli(w) ==
  IF ensure_config_dir(w).gcfg.kind = "absent"
  THEN save_config(ensure_config_dir(w), initial_config).w
  ELSE ensure_config_dir(w)

StartupEvents == {"mkdir config_dir", "mkdir cache_dir", "write global config"}

---------------------------------------------------------------------------
\* Snapshots the server can answer a clone request with

Member(name, content) == [name |-> name, content |-> content]

ZipPlain(b) ==
  <<Member("a.txt", Text(b)), Member("src/b.txt", Text(b))>>

ZipLayout(b) ==
  <<Member("a.txt", Text(b)), Member("docs.reporouge/c.txt", Text(b)),
    Member("bin.dat", Bin)>>

ZipHidden(b) ==
  <<Member("a.txt", Text(b)),
    Member(".reporouge/config.json", Desc("mallory", "other", b, 0)),
    Member(".reporouge/notes.txt", Text(b))>>

ZipDotSlash(b) ==
  <<Member("a.txt", Text(b)),
    Member("./.reporouge/config.json", Desc("mallory", "other", b, 0))>>

Zips(b) == {ZipPlain(b), ZipLayout(b), ZipHidden(b), ZipDotSlash(b)}

---------------------------------------------------------------------------
\* Working-Directory Sync

\* zipfile.ZipFile._extract_member: the member is written at its name with
\* the empty, "." and ".." components removed.
arcname(name) == DropParts(Split(name), {"", ".", ".."})

extract(f, member) ==
  IF arcname(member.name) = <<>> THEN f
  ELSE Write(f, arcname(member.name), member.content)

RECURSIVE extract_members(_, _)
extract_members(f, members) ==
  IF members = <<>> THEN f
  ELSE extract_members(extract(f, Head(members)), Tail(members))

\* zip_ref.extractall(target_dir) of clone; creates the directory.
extractall(w, zip) ==
  Logged([w EXCEPT !.target_exists = TRUE, !.fs = extract_members(w.fs, zip)],
         "extract")

\* The member test of the extraction loop of checkout and pull.
skip_member(name) == StartsWith(name, ".reporouge/")

RECURSIVE kept_members(_)
kept_members(members) ==
  IF members = <<>> THEN <<>>
  ELSE IF skip_member(Head(members).name) THEN kept_members(Tail(members))
  ELSE <<Head(members)>> \o kept_members(Tail(members))

extract_new_content(w, zip) ==
  Logged([w EXCEPT !.fs = extract_members(w.fs, kept_members(zip))], "extract")

\* for item in Path('.').iterdir(): if item.name != '.reporouge': remove it
keep_item(p) == p[1] = HIDDEN

clear_directory(w) ==
  Logged([w EXCEPT !.fs = Restrict(w.fs, {p \in DOMAIN w.fs : keep_item(p)})],
         "clear")

rmtree(w) ==
  Logged([w EXCEPT !.target_exists = FALSE, !.fs = EmptyFs], "rmtree")

write_descriptor(w, d) ==
  Logged([w EXCEPT !.fs = Write(w.fs, DescriptorPath, d)], "write descriptor")

\* os.walk('.'): the directory a file is listed under, as the walk names it.
root_of(p) == Join(<<".">> \o SubSeq(p, 1, Len(p) - 1))

\* Variant: only the hidden folder itself is skipped, not what lies below it.
skip_root_exact(root) == root = "./.reporouge"

skip_root(root) == Contains(".reporouge", root)

walked(f) == {p \in DOMAIN f : ~skip_root(root_of(p))}

---------------------------------------------------------------------------
\* Command handlers.  Each takes the world after the group callback and
\* returns the world it leaves, with the way it ended:
\*   "ok"        ran to its success message
\*   "refused"   a required token or descriptor was missing
\*   "failed"    an HTTP request raised (RequestException handler)
\*   "declined"  the overwrite confirmation of clone was answered no
\*   "invalid"   the repository argument of clone has no "/"
\*   "nothing"   push found no file to send
\*   "crashed"   another exception reached the top-level handler

CliToken == "cli-token"

UserName == "alice"

Email == "alice@example.org"

\* Variant: the configuration is saved after the login request, before the
\* CLI-token exchange.
login_saves_early(w, server, loginOK, tokenOK) ==
  IF ~loginOK
  THEN Result(request(w, "POST /auth/login"), "failed")
  ELSE IF ~tokenOK
  THEN Result(request(save_config(request(w, "POST /auth/login"),
                                  [server_url |-> server, token |-> "access-token",
                                   username |-> UserName, email |-> Email]).w,
                      "POST /auth/cli-token"),
              "failed")
  ELSE Result(save_config(request(request(w, "POST /auth/login"),
                                  "POST /auth/cli-token"),
                          [server_url |-> server, token |-> CliToken,
                           username |-> UserName, email |-> Email]).w,
              IF w.gcfg.kind = "unreadable" THEN "crashed" ELSE "ok")

login(w, server, loginOK, tokenOK) ==
  IF ~loginOK
  THEN Result(request(w, "POST /auth/login"), "failed")
  ELSE IF ~tokenOK
  THEN Result(request(request(w, "POST /auth/login"), "POST /auth/cli-token"),
              "failed")
  ELSE Result(save_config(request(request(w, "POST /auth/login"),
                                  "POST /auth/cli-token"),
                          [server_url |-> server, token |-> CliToken,
                           username |-> UserName, email |-> Email]).w,
              IF w.gcfg.kind = "unreadable" THEN "crashed" ELSE "ok")

\* repo_url.split('/', 1)
split_once(s) ==
  IF SlashAt(s) = {} THEN <<s>>
  ELSE <<SubSeq(s, 1, FirstSlash(s) - 1), SubSeq(s, FirstSlash(s) + 1, Len(s))>>

\* Variant: the existing directory is removed before the confirmation is read.
clone_try_rmtree_first(w, owner, repo_name, branch, now, infoOK, dlOK, zip, confirm) ==
  IF ~infoOK THEN Result(request(w, "GET info"), "failed")
  ELSE IF ~dlOK THEN Result(request(request(w, "GET info"), "GET clone"), "failed")
  ELSE LET w2 == request(request(w, "GET info"), "GET clone")
           w3 == IF w2.target_exists THEN rmtree(w2) ELSE w2
       IN  IF w.target_exists /\ ~confirm THEN Result(w3, "declined")
           ELSE Result(write_descriptor(extractall(w3, zip),
                                        Desc(owner, repo_name, branch, now)), "ok")

clone_try(w, owner, repo_name, branch, now, infoOK, dlOK, zip, confirm) ==
  IF ~infoOK THEN Result(request(w, "GET info"), "failed")
  ELSE IF ~dlOK THEN Result(request(request(w, "GET info"), "GET clone"), "failed")
  ELSE IF w.target_exists /\ ~confirm
  THEN Result(request(request(w, "GET info"), "GET clone"), "declined")
  ELSE LET w2 == request(request(w, "GET info"), "GET clone")
           w3 == IF w2.target_exists THEN rmtree(w2) ELSE w2
           w4 == extractall(w3, zip)
       IN  Result(write_descriptor(w4, Desc(owner, repo_name, branch, now)), "ok")

clone(w, repo_url, branch, now, infoOK, dlOK, zip, confirm) ==
  IF load_config(w.gcfg).raised THEN Result(w, "crashed")
  ELSE IF load_config(w.gcfg).value.kind # "object" THEN Result(w, "crashed")
  ELSE IF ~Truthy(Get(load_config(w.gcfg).value.obj, "token"))
  THEN Result(w, "refused")
  ELSE IF Len(split_once(repo_url)) # 2 THEN Result(w, "invalid")
  ELSE clone_try(w, split_once(repo_url)[1], split_once(repo_url)[2], branch,
                 now, infoOK, dlOK, zip, confirm)

status(w) ==
  IF get_local_repo_config(w.fs).raised THEN Result(w, "crashed")
  ELSE IF get_local_repo_config(w.fs).value = None THEN Result(w, "refused")
  ELSE [Result(w, "ok") EXCEPT !.listed = walked(w.fs)]

\* The test that opens branch, checkout, push and pull:
\*   repo_config = get_local_repo_config(); config = load_config()
\*   if not repo_config or not config.get('token'): return
\* Variant: the token test is left out.
prereq_descriptor_only(w) ==
  IF get_local_repo_config(w.fs).raised \/ load_config(w.gcfg).raised
  THEN "crashed"
  ELSE IF get_local_repo_config(w.fs).value = None THEN "refused"
  ELSE "ready"

prereq(w) ==
  IF get_local_repo_config(w.fs).raised \/ load_config(w.gcfg).raised
  THEN "crashed"
  ELSE IF get_local_repo_config(w.fs).value = None THEN "refused"
  ELSE IF load_config(w.gcfg).value.kind # "object" THEN "crashed"
  ELSE IF ~Truthy(Get(load_config(w.gcfg).value.obj, "token")) THEN "refused"
  ELSE "ready"

branch(w, ok) ==
  IF prereq(w) # "ready" THEN Result(w, prereq(w))
  ELSE Result(request(w, "GET branches"), IF ok THEN "ok" ELSE "failed")

\* Variant: the local descriptor is updated before the server is asked.
checkout_try_local_first(w, repo_config, branch_name, swOK, dlOK, zip) ==
  LET w1 == write_descriptor(w, [repo_config EXCEPT !.current_branch = branch_name])
  IN  IF ~swOK THEN Result(request(w1, "POST switch"), "failed")
      ELSE IF ~dlOK
      THEN Result(request(request(w1, "POST switch"), "GET clone"), "failed")
      ELSE Result(extract_new_content(
                    clear_directory(request(request(w1, "POST switch"), "GET clone")),
                    zip), "ok")

\* Variant: the working directory is cleared before the snapshot is downloaded.
checkout_try_clear_first(w, repo_config, branch_name, swOK, dlOK, zip) ==
  IF ~swOK THEN Result(request(w, "POST switch"), "failed")
  ELSE LET w2 == write_descriptor(request(w, "POST switch"),
                                  [repo_config EXCEPT !.current_branch = branch_name])
           w3 == request(clear_directory(w2), "GET clone")
       IN  IF ~dlOK THEN Result(w3, "failed")
           ELSE Result(extract_new_content(w3, zip), "ok")

checkout_try(w, repo_config, branch_name, swOK, dlOK, zip) ==
  IF ~swOK THEN Result(request(w, "POST switch"), "failed")
  ELSE LET w2 == write_descriptor(request(w, "POST switch"),
                                  [repo_config EXCEPT !.current_branch = branch_name])
           w3 == request(w2, "GET clone")
       IN  IF ~dlOK THEN Result(w3, "failed")
           ELSE Result(extract_new_content(clear_directory(w3), zip), "ok")

checkout(w, branch_name, swOK, dlOK, zip) ==
  IF prereq(w) # "ready" THEN Result(w, prereq(w))
  ELSE checkout_try(w, get_local_repo_config(w.fs).value, branch_name,
                    swOK, dlOK, zip)

\* open(file_path, 'r', encoding='utf-8').read() succeeds
readable(c) == c.kind \in {"text", "desc"}

files_to_push(f, message) ==
  {[path |-> p, content |-> f[p], message |-> message] :
     p \in {q \in walked(f) : readable(f[q])}}

push(w, message, ok) ==
  IF prereq(w) # "ready" THEN Result(w, prereq(w))
  ELSE IF files_to_push(w.fs, message) = {} THEN Result(w, "nothing")
  ELSE [Result(request(w, "POST push"), IF ok THEN "ok" ELSE "failed")
          EXCEPT !.payload = files_to_push(w.fs, message),
                 !.branch = get_local_repo_config(w.fs).value.current_branch]

\* Variant: the working directory is cleared before the snapshot is downloaded.
pull_try_clear_first(w, dlOK, zip) ==
  IF ~dlOK THEN Result(request(clear_directory(w), "GET clone"), "failed")
  ELSE Result(extract_new_content(request(clear_directory(w), "GET clone"), zip),
              "ok")

pull_try(w, dlOK, zip) ==
  IF ~dlOK THEN Result(request(w, "GET clone"), "failed")
  ELSE Result(extract_new_content(clear_directory(request(w, "GET clone")), zip),
              "ok")

pull(w, dlOK, zip) ==
  IF prereq(w) # "ready" THEN Result(w, prereq(w))
  ELSE pull_try(w, dlOK, zip)

\* The branch whose snapshot pull asks for.
pull_branch(f) ==
  IF get_local_repo_config(f).value = None THEN "main"
  ELSE get_local_repo_config(f).value.current_branch

\* The branch a clone request of the command asks the server for.
requested_branch(cmd, arg, f) == IF cmd = "pull" THEN pull_branch(f) ELSE arg

\* The branch of the descriptor a directory holds, if it holds one.
pull_branch_or_null(f) ==
  IF get_local_repo_config(f).raised \/ get_local_repo_config(f).value = None
  THEN Null
  ELSE get_local_repo_config(f).value.current_branch

---------------------------------------------------------------------------
\* Initial states: what the user's machine can hold before a command runs

LoggedIn ==
  Object([server_url |-> DefaultServer, token |-> CliToken,
          username |-> UserName, email |-> Email])

InitialGlobalConfigs ==
  {GAbsent, GUnreadable, GNotUtf8, GNotJson, GNonObject,
   Object(initial_config), LoggedIn}

LinkedFiles ==
  (DescriptorPath :> Desc("alice", "proj", "main", 0))
  @@ (<<HIDDEN, "notes.txt">> :> Text("notes"))
  @@ (<<HIDDEN, "cache", "x.txt">> :> Text("cached"))
  @@ (<<"a.txt">> :> Text("local"))
  @@ (<<"docs.reporouge", "c.txt">> :> Text("local"))
  @@ (<<"src", "b.txt">> :> Text("local"))
  @@ (<<"bin.dat">> :> Bin)
  @@ (<<"secret.txt">> :> NoRead)

InitialLayouts ==
  {EmptyFs,
   (<<"a.txt">> :> Text("local")),
   LinkedFiles,
   (DescriptorPath :> Desc("alice", "proj", "dev", 0)) @@ (<<"bin.dat">> :> Bin),
   (DescriptorPath :> Text("{garbage")) @@ (<<"a.txt">> :> Text("local")),
   (DescriptorPath :> Bin) @@ (<<"a.txt">> :> Text("local"))}

Init ==
  /\ gcfg \in InitialGlobalConfigs
  /\ config_dir \in BOOLEAN
  /\ cache_dir \in BOOLEAN
  /\ gcfg.kind # "absent" => config_dir
  /\ cache_dir => config_dir
  /\ target_exists \in BOOLEAN
  /\ fs \in InitialLayouts
  /\ ~target_exists => fs = EmptyFs
  /\ clock = 1
  /\ last = [cmd |-> "none", arg |-> Null, outcome |-> "none", listed |-> {},
             payload |-> {}, branch |-> Null]
  /\ log = <<>>
  /\ installed = pull_branch_or_null(fs)

---------------------------------------------------------------------------
\* Actions: one invocation of the program each

Run(cmd, arg, r) ==
  /\ clock < MaxClock
  /\ clock' = clock + 1
  /\ gcfg' = r.w.gcfg
  /\ config_dir' = r.w.config_dir
  /\ cache_dir' = r.w.cache_dir
  /\ target_exists' = r.w.target_exists
  /\ fs' = r.w.fs
  /\ log' = r.w.log
  /\ installed' = IF \E i \in DOMAIN r.w.log : r.w.log[i] = "extract"
                   THEN requested_branch(cmd, arg, fs)
                   ELSE installed
  /\ last' = [cmd |-> cmd, arg |-> arg, outcome |-> r.outcome, listed |-> r.listed,
              payload |-> r.payload, branch |-> r.branch]

Login ==
  /\ clock < MaxClock
  /\ \E server \in Servers, loginOK \in BOOLEAN, tokenOK \in BOOLEAN :
     Run("login", server, login(cli(World), server, loginOK, tokenOK))

Clone ==
  /\ clock < MaxClock
  /\ \E repo_url \in RepoUrls, b \in Branches, infoOK \in BOOLEAN, dlOK \in BOOLEAN,
     confirm \in BOOLEAN :
     \E zip \in Zips(b) :
        Run("clone", b,
            clone(cli(World), repo_url, b, clock, infoOK, dlOK, zip, confirm))

Status ==
  /\ target_exists
  /\ Run("status", Null, status(cli(World)))

Branch ==
  /\ target_exists
  /\ \E ok \in BOOLEAN : Run("branch", Null, branch(cli(World), ok))

Checkout ==
  /\ target_exists
  /\ \E b \in Branches, swOK \in BOOLEAN, dlOK \in BOOLEAN :
        \E zip \in Zips(b) :
           Run("checkout", b, checkout(cli(World), b, swOK, dlOK, zip))

Push ==
  /\ target_exists
  /\ \E message \in Messages, ok \in BOOLEAN :
        Run("push", message, push(cli(World), message, ok))

Pull ==
  /\ target_exists
  /\ \E dlOK \in BOOLEAN :
        \E zip \in Zips(pull_branch(fs)) :
           Run("pull", Null, pull(cli(World), dlOK, zip))

Next == Login \/ Clone \/ Status \/ Branch \/ Checkout \/ Push \/ Pull

Spec == Init /\ [][Next]_vars

---------------------------------------------------------------------------
\* Vocabulary of the properties

Events(l) == {l[i] : i \in DOMAIN l}

NotStartup(e) == e \notin StartupEvents

\* What the command handler itself did, after the group callback.
CommandLog(l) == SelectSeq(l, NotStartup)

IsPrefix(a, b) == Len(a) <= Len(b) /\ SubSeq(b, 1, Len(a)) = a

InHidden(p) == p[1] = HIDDEN

Hidden(f) == Restrict(f, {p \in DOMAIN f : InHidden(p)})

Visible(f) == Restrict(f, {p \in DOMAIN f : ~InHidden(p)})

HasDescriptor(f) == DescriptorPath \in DOMAIN f /\ f[DescriptorPath].kind = "desc"

HasToken(g) == g.kind = "object" /\ Get(g.obj, "token") # Null

NeedsToken == {"clone", "branch", "checkout", "push", "pull"}

NeedsDescriptor == {"status", "branch", "checkout", "push", "pull"}

---------------------------------------------------------------------------
\* C1

SwitchFailed ==
  /\ last.cmd = "checkout"
  /\ last.outcome = "failed"
  /\ "GET clone" \notin Events(log)

\* C1: in a linked working directory with a saved token, a checkout whose
\* switch-branch request fails leaves the descriptor's current_branch as it
\* was and deletes no entry of the working directory.
C1_SwitchFailureKeepsLocalState ==
  [][(HasDescriptor(fs) /\ HasToken(gcfg) /\ SwitchFailed')
       => /\ HasDescriptor(fs')
          /\ fs'[DescriptorPath].current_branch = fs[DescriptorPath].current_branch
          /\ \A p \in DOMAIN fs : p \in DOMAIN fs' /\ fs'[p] = fs[p]]_vars

C1_Witness ==
  /\ SwitchFailed
  /\ HasDescriptor(fs)
  /\ fs[DescriptorPath].current_branch # last.arg
  /\ Visible(fs) # EmptyFs

---------------------------------------------------------------------------
\* C2

LoginFailed == last.cmd = "login" /\ last.outcome = "failed"

\* C2 as stated: a login whose login request or token exchange fails leaves
\* the global config file as it was, whatever it was, absent included.
C2_FailedLoginKeepsAnyConfig ==
  [][LoginFailed' => gcfg' = gcfg]_vars

\* C2 amended: a failed login leaves an existing global config file as it
\* was; an absent one has been created by the start-up callback and holds
\* the initial config (default server, no token, no username).
C2_FailedLoginKeepsExistingConfig ==
  [][LoginFailed'
       => /\ gcfg.kind # "absent" => gcfg' = gcfg
          /\ gcfg.kind = "absent" => gcfg' = Object(initial_config)]_vars

C2_Witness ==
  /\ LoginFailed
  /\ "POST /auth/cli-token" \in Events(log)
  /\ gcfg = LoggedIn

---------------------------------------------------------------------------
\* C3

\* The command about to run lacks the token or the descriptor it requires.
MissingRequirement ==
  \/ last'.cmd \in NeedsToken /\ ~HasToken(gcfg)
  \/ last'.cmd \in NeedsDescriptor /\ ~HasDescriptor(fs)

\* C3 as stated: such an invocation makes no network call and no filesystem
\* write or deletion, whatever the global config file was.
C3_RefusalTouchesNothing ==
  [][MissingRequirement => log' = <<>>]_vars

\* C3 amended: such an invocation makes no network call and changes nothing
\* in the working or target directory; its only filesystem writes are those
\* of the start-up callback: the missing config and cache directories and,
\* when the global config file was absent, the initial global config.
C3_RefusalOnlyRunsStartup ==
  [][MissingRequirement
       => /\ Events(log') \cap NetEvents = {}
          /\ fs' = fs
          /\ target_exists' = target_exists
          /\ Events(log') \subseteq StartupEvents
          /\ "mkdir config_dir" \in Events(log') <=> ~config_dir
          /\ "mkdir cache_dir" \in Events(log') <=> ~cache_dir
          /\ "write global config" \in Events(log') <=> gcfg.kind = "absent"
          /\ gcfg.kind # "absent" => gcfg' = gcfg]_vars

C3_Witness ==
  /\ last.cmd = "clone"
  /\ last.outcome = "refused"
  /\ ~target_exists
  /\ "write global config" \in Events(log)

---------------------------------------------------------------------------
\* C4

MalformedKinds == {"absent", "unreadable", "notutf8", "notjson", "nonobject"}

\* C4: for an absent, unreadable, non-UTF-8, non-JSON or non-object global
\* config file, load_config returns the default config and does not raise.
C4_LoadConfigFallsBackToDefault ==
  gcfg.kind \in MalformedKinds
    => load_config(gcfg) = [raised |-> FALSE, value |-> Object(default_config)]

---------------------------------------------------------------------------
\* C5

\* C5: no file inside the hidden config subfolder is listed by the status
\* walk or is part of the file set push sends.
C5_HiddenFolderNeverWalked ==
  /\ last.cmd = "status" => \A p \in last.listed : ~InHidden(p)
  /\ last.cmd = "push" => \A r \in last.payload : ~InHidden(r.path)

C5_Witness ==
  /\ last.cmd = "push"
  /\ last.payload # {}
  /\ <<HIDDEN, "cache", "x.txt">> \in DOMAIN fs
  /\ <<HIDDEN, "notes.txt">> \in DOMAIN fs

---------------------------------------------------------------------------
\* C6

CloneDeclined == last.cmd = "clone" /\ last.outcome = "declined"

\* C6: a clone into an existing directory whose overwrite confirmation is
\* declined leaves every entry of the directory as it was and writes no
\* descriptor.
C6_DeclinedCloneKeepsDirectory ==
  [][(target_exists /\ CloneDeclined')
       => /\ target_exists'
          /\ fs' = fs
          /\ "write descriptor" \notin Events(log')]_vars

C6_Witness ==
  /\ CloneDeclined
  /\ target_exists
  /\ Visible(fs) # EmptyFs

---------------------------------------------------------------------------
\* C7

RequestFailed == last.cmd \in {"clone", "pull"} /\ last.outcome = "failed"

\* C7: a clone or pull in which an HTTP request fails leaves the directory
\* and the local descriptor exactly as they were.
C7_FailedRequestKeepsDirectory ==
  [][RequestFailed' => fs' = fs /\ target_exists' = target_exists]_vars

C7_Witness ==
  /\ last.cmd = "pull"
  /\ last.outcome = "failed"
  /\ HasDescriptor(fs)
  /\ Visible(fs) # EmptyFs

---------------------------------------------------------------------------
\* C8

ClaimedCheckoutOrder ==
  <<"POST switch", "write descriptor", "clear", "GET clone", "extract">>

CheckoutOrder ==
  <<"POST switch", "write descriptor", "GET clone", "clear", "extract">>

\* C8 as stated: checkout switches on the server, updates the descriptor,
\* deletes the working-directory entries, downloads the ZIP and extracts it,
\* in this order: the deletion precedes the download.
C8_CheckoutClearsBeforeDownload ==
  last.cmd = "checkout"
    => /\ IsPrefix(CommandLog(log), ClaimedCheckoutOrder)
       /\ last.outcome = "ok" => CommandLog(log) = ClaimedCheckoutOrder

\* C8 amended: checkout switches on the server, updates the descriptor,
\* downloads the ZIP, deletes the working-directory entries and extracts, in
\* this order: the download precedes the deletion, and a checkout that stops
\* at a failed request has made only the steps before it.
C8_CheckoutDownloadsBeforeClear ==
  last.cmd = "checkout"
    => /\ IsPrefix(CommandLog(log), CheckoutOrder)
       /\ last.outcome = "ok" => CommandLog(log) = CheckoutOrder

C8_Witness ==
  /\ last.cmd = "checkout"
  /\ last.outcome = "ok"
  /\ Len(CommandLog(log)) = 5

---------------------------------------------------------------------------
\* C9

\* C9: whatever the snapshot ZIP holds, the clear and extract steps of pull
\* and checkout delete, create and overwrite nothing inside the hidden
\* config subfolder: pull leaves the subfolder, the descriptor included, as
\* it was, and checkout changes at most the descriptor's current_branch.
C9_SyncNeverTouchesHiddenFolder ==
  [][/\ last'.cmd = "pull" => Hidden(fs') = Hidden(fs)
     /\ (last'.cmd = "checkout" /\ HasDescriptor(fs))
          => /\ DOMAIN Hidden(fs') = DOMAIN Hidden(fs)
             /\ \A p \in DOMAIN Hidden(fs) \ {DescriptorPath} : fs'[p] = fs[p]
             /\ HasDescriptor(fs')
             /\ fs'[DescriptorPath] =
                  [fs[DescriptorPath] EXCEPT
                     !.current_branch = fs'[DescriptorPath].current_branch]]_vars

---------------------------------------------------------------------------
\* C10

\* The files outside the hidden config subfolder at the working-directory
\* root that read as UTF-8 text.
Eligible(f) == {p \in DOMAIN f : ~InHidden(p) /\ f[p].kind \in {"text", "desc"}}

PushRan == last.cmd = "push" /\ last.outcome \in {"ok", "failed", "nothing"}

\* C10: the file set push sends holds every file outside the hidden config
\* subfolder that reads as UTF-8 text, also below directories whose name
\* merely contains ".reporouge", each tagged with the commit message, in one
\* request for the descriptor's current branch.
C10_PushSendsEveryEligibleFile ==
  PushRan
    => /\ last.payload =
            {[path |-> p, content |-> fs[p], message |-> last.arg] :
               p \in Eligible(fs)}
       /\ last.payload # {}
            => last.branch = fs[DescriptorPath].current_branch

---------------------------------------------------------------------------
\* C11

\* C11: after any sequence of clone, checkout and pull commands whose HTTP
\* requests may each fail, the descriptor's current_branch names the branch
\* whose snapshot was extracted last into the working directory.
C11_DescriptorNamesInstalledBranch ==
  HasDescriptor(fs) => fs[DescriptorPath].current_branch = installed

====
